---- MODULE Spec2Model ----
(***************************************************************************)
(* Model of the tuit REST controller (TuitController), the two tuit schema *)
(* declarations and the user DAO (UserDao) of fse-node.                    *)
(*                                                                         *)
(* A request is handled in one step: the handler reads the path/body       *)
(* parameters, makes its single DAO call and, when the returned promise    *)
(* resolves, writes the response.  The handlers hold no state between the  *)
(* DAO call and the response, so the step is atomic.                       *)
(***************************************************************************)
EXTENDS Integers, Sequences, FiniteSets, TLC

VARIABLES
    tuitController,  \* TuitController.tuitController: 0 is null, n > 0 the n-th instance built
    routes,          \* per Express app, the sequence of routes registered on it
    firstApp,        \* history: the app of the first TuitController.getInstance call
    callApps,        \* history: the apps getInstance has been called with
    returned,        \* history: the controller instances getInstance has returned
    userDao,         \* UserDao.userDao: 0 is null, n > 0 the n-th instance built
    daoReturned,     \* history: the UserDao instances getInstance has returned
    schema,          \* which TuitSchema declaration the tuit model is compiled from
    ignoreUndefined, \* driver setting: undefined filter values are dropped, not sent as null
    tuits,           \* the tuits collection, in insertion order
    nextId,          \* number of primary keys handed out so far
    clock,           \* Date.now()
    req,             \* the last tuit request
    arg,             \* the identifier the last tuit handler passed to the DAO
    res,             \* the response to the last tuit request
    users,           \* the users collection, in insertion order
    nextUserId,      \* number of user primary keys handed out so far
    ucall,           \* the last UserDao call
    ures             \* what the last UserDao call resolved to

vars == <<tuitController, routes, firstApp, callApps, returned, userDao, daoReturned,
          schema, ignoreUndefined, tuits, nextId, clock, req, arg, res,
          users, nextUserId, ucall, ures>>

ctlVars == <<tuitController, routes, firstApp, callApps, returned>>
tuitVars == <<tuits, nextId, clock, req, arg, res>>
userVars == <<users, nextUserId, ucall, ures>>

----------------------------------------------------------------------------
(* Bounds *)

MaxTuits == 1      \* primary keys the tuits collection hands out
MaxClock == 1      \* ticks of the wall clock
MaxUsers == 2      \* primary keys the users collection hands out

----------------------------------------------------------------------------
(* Values *)

Undefined == "undefined"
NoApp == "none"
Apps == {"app1", "app2"}

ValidUids == {"u1", "u2"}          \* strings that cast to an ObjectId
BadUid == "zz"                     \* a string that does not
Uids == ValidUids \cup {BadUid}

IdOf(n) == "t" \o ToString(n)
TuitIds == {IdOf(n) : n \in 1..(MaxTuits + 1)}   \* the keys clients ask for; the last is never stored

Empty == [k \in {} |-> ""]
Merge(a, b) == [k \in DOMAIN a \cup DOMAIN b |-> IF k \in DOMAIN b THEN b[k] ELSE a[k]]
Restrict(a, D) == [k \in DOMAIN a \cap D |-> a[k]]
Has(a, k) == k \in DOMAIN a

\* request bodies (partial tuits): no text, empty text, text only, text with a
\* postedBy of its own, text with a postedOn and stats of its own
Bodies ==
    { Empty,
      [tuit |-> ""],
      [tuit |-> "hello"],
      [tuit |-> "bye", postedBy |-> "u2"],
      [tuit |-> "hello", postedOn |-> 7, stats |-> [likes |-> 5]] }

----------------------------------------------------------------------------
(* Schema declarations *)

SchemaFull == "unnamed/part_001"
SchemaShort == "mongoose/TuitSchema.ts"
Schemas == {SchemaFull, SchemaShort}

StatsCounters == {"replies", "retuits", "likes", "dislikes", "currentUserLike", "currentUserDislike"}

\* the paths a schema declares; the model is strict, so any other field of a document is dropped
SchemaPaths(s) ==
    IF s = SchemaFull
    THEN {"tuit", "postedBy", "postedOn", "image", "youtube", "avatarLogo", "imageOverlay", "stats"}
    ELSE {"tuit", "postedBy", "postedOn"}

RequiredPathsNone(s) == {}

\* tuit : {type:String, required:true}
RequiredPaths(s) == {"tuit"}

\* a required String path is satisfied by a non-empty string only
RequiredOk(s, doc) == \A p \in RequiredPaths(s) : Has(doc, p) /\ doc[p] # ""

\* postedBy : {type: Schema.Types.ObjectId}: the value must cast to an ObjectId
CastOk(s, doc) == Has(doc, "postedBy") => doc["postedBy"] \in ValidUids

\* the defaults of the paths the schema declares, for a document built at instant now
Defaults(s, now) ==
    IF s = SchemaFull
    THEN [postedOn |-> now, stats |-> [c \in StatsCounters |-> 0]]
    ELSE [postedOn |-> now]

\* a new document of the model: strict filtering, then defaults under the supplied values
NewDocument(s, raw, now) ==
    LET kept == Restrict(raw, SchemaPaths(s))
        dflt == Defaults(s, now)
        top  == Merge(dflt, kept)
    IN  IF Has(dflt, "stats") /\ Has(kept, "stats")
        THEN Merge(top, [stats |-> Merge(dflt["stats"], kept["stats"])])
        ELSE top

\* what validation on save decides
ValidDocument(s, doc) == CastOk(s, doc) /\ RequiredOk(s, doc)

\* the update document of a $set: strict filtering of the supplied fields
CastUpdate(s, body) == Restrict(body, SchemaPaths(s))

----------------------------------------------------------------------------
(* Express routing *)

SixRoutes ==
    << [method |-> "GET",    path |-> "/tuits",            handler |-> "findAllTuits"],
       [method |-> "GET",    path |-> "/users/:uid/tuits", handler |-> "findTuitsByUser"],
       [method |-> "GET",    path |-> "/tuits/:tid",       handler |-> "findTuitById"],
       [method |-> "POST",   path |-> "/users/:uid/tuits", handler |-> "createTuit"],
       [method |-> "DELETE", path |-> "/tuits/:tid",       handler |-> "deleteTuit"],
       [method |-> "PUT",    path |-> "/tuits/:tid",       handler |-> "updateTuit"] >>

\* the named parameters of a route path
PathParams(path) ==
    IF path = "/tuits/:tid" THEN {"tid"}
    ELSE IF path = "/users/:uid/tuits" THEN {"uid"}
    ELSE {}

\* req.params of a request that matched path with value v in its parameter segment
Params(path, v) == [n \in PathParams(path) |-> v]

\* req.params.<name>
ReadParam(params, name) == IF name \in DOMAIN params THEN params[name] ELSE Undefined

\* the handler Express runs for a request: the first registered route that matches
Dispatch(app, method, path) ==
    LET hit == {i \in 1..Len(routes[app]) :
                   routes[app][i].method = method /\ routes[app][i].path = path}
    IN  IF hit = {} THEN "none"
        ELSE routes[app][CHOOSE i \in hit : \A j \in hit : i <= j].handler

----------------------------------------------------------------------------
(* TuitController *)

NeedsInstanceAlways == TRUE

\* if(TuitController.tuitController === null)
NeedsInstance == tuitController = 0

GetInstance(app) ==
    /\ IF NeedsInstance
       THEN /\ tuitController' = Cardinality(returned) + 1
            /\ routes' = [routes EXCEPT ![app] = routes[app] \o SixRoutes]
       ELSE UNCHANGED <<tuitController, routes>>
    /\ firstApp' = IF firstApp = NoApp THEN app ELSE firstApp
    /\ callApps' = callApps \cup {app}
    /\ returned' = returned \cup {tuitController'}
    /\ UNCHANGED <<userDao, daoReturned, schema, ignoreUndefined>>
    /\ UNCHANGED tuitVars
    /\ UNCHANGED userVars

\* the arguments each handler passes to the DAO
FindTuitByIdArg(params) == ReadParam(params, "tid")
FindTuitsByUserArgTid(params) == ReadParam(params, "tid")
FindTuitsByUserArg(params) == ReadParam(params, "uid")
CreateTuitArgFromBody(params, body) ==
    IF Has(body, "postedBy") THEN body["postedBy"] ELSE ReadParam(params, "uid")
CreateTuitArg(params, body) == ReadParam(params, "uid")
DeleteTuitArgTid(params) == ReadParam(params, "tid")
DeleteTuitArg(params) == ReadParam(params, "tuitId")
UpdateTuitArg(params) == ReadParam(params, "tuitId")

----------------------------------------------------------------------------
(* TuitDao over the tuits model *)

NoArg == "noarg"

\* the stored positions a filter {_id: id} selects.  An undefined id is sent as
\* null (matching nothing) or dropped from the filter (matching everything),
\* by the driver's ignoreUndefined setting.
MatchId(id) ==
    IF id = Undefined
    THEN IF ignoreUndefined THEN 1..Len(tuits) ELSE {}
    ELSE {i \in 1..Len(tuits) : tuits[i]["_id"] = id}

First(S) == CHOOSE i \in S : \A j \in S : i <= j

SelectSeq2(seq, keep) ==
    LET F[i \in 0..Len(seq)] ==
            IF i = 0 THEN <<>>
            ELSE IF i \in keep THEN Append(F[i - 1], seq[i]) ELSE F[i - 1]
    IN  F[Len(seq)]

\* TuitModel.find()
DaoFindAllTuits == tuits

\* TuitModel.findById(id): an undefined id is looked up as null
DaoFindTuitById(id) ==
    LET hit == {i \in 1..Len(tuits) : tuits[i]["_id"] = id}
    IN  IF hit = {} THEN <<>> ELSE <<tuits[First(hit)]>>

\* a filter on postedBy is cast by the schema like a stored value
FilterCastOk(uid) == CastOk(schema, [postedBy |-> uid])

\* TuitModel.find({postedBy: uid})
DaoFindTuitsByUser(uid) ==
    SelectSeq2(tuits, {i \in 1..Len(tuits) : Has(tuits[i], "postedBy") /\ tuits[i]["postedBy"] = uid})

\* TuitModel.create({...tuit, postedBy: uid}): the document handed to the model
DaoCreateTuit(uid, body) == Merge(body, [postedBy |-> uid])

\* TuitModel.deleteOne({_id: id}): the collection afterwards
DaoDeleteTuit(id) ==
    IF MatchId(id) = {} THEN tuits
    ELSE SelectSeq2(tuits, (1..Len(tuits)) \ {First(MatchId(id))})

\* TuitModel.updateOne({_id: id}, {$set: body}): the collection afterwards
DaoUpdateTuit(id, body) ==
    IF MatchId(id) = {} THEN tuits
    ELSE [tuits EXCEPT ![First(MatchId(id))] = Merge(@, CastUpdate(schema, body))]

\* the count a deleteOne/updateOne outcome reports
DaoOutcome(id) == IF MatchId(id) = {} THEN 0 ELSE 1

----------------------------------------------------------------------------
(* Request handlers *)

Request(h, params, body) == [handler |-> h, params |-> params, body |-> body]
Sent(h, docs, n) == [handler |-> h, status |-> "sent", docs |-> docs, n |-> n]
Rejected(h) == [handler |-> h, status |-> "rejected", docs |-> <<>>, n |-> 0]

fixedVars == <<tuitController, routes, firstApp, callApps, returned, userDao, daoReturned,
               schema, ignoreUndefined>>

FindAllTuits(app) ==
    /\ Dispatch(app, "GET", "/tuits") = "findAllTuits"
    /\ req' = Request("findAllTuits", Params("/tuits", Undefined), Empty)
    /\ arg' = NoArg
    /\ res' = Sent("findAllTuits", DaoFindAllTuits, 0)
    /\ UNCHANGED <<tuits, nextId, clock>>
    /\ UNCHANGED fixedVars
    /\ UNCHANGED userVars

FindTuitById(app, tid) ==
    /\ Dispatch(app, "GET", "/tuits/:tid") = "findTuitById"
    /\ LET params == Params("/tuits/:tid", tid)
       IN  /\ req' = Request("findTuitById", params, Empty)
           /\ arg' = FindTuitByIdArg(params)
           /\ res' = Sent("findTuitById", DaoFindTuitById(FindTuitByIdArg(params)), 0)
    /\ UNCHANGED <<tuits, nextId, clock>>
    /\ UNCHANGED fixedVars
    /\ UNCHANGED userVars

FindTuitsByUser(app, uid) ==
    /\ Dispatch(app, "GET", "/users/:uid/tuits") = "findTuitsByUser"
    /\ LET params == Params("/users/:uid/tuits", uid)
       IN  /\ req' = Request("findTuitsByUser", params, Empty)
           /\ arg' = FindTuitsByUserArg(params)
           /\ res' = IF FilterCastOk(FindTuitsByUserArg(params))
                     THEN Sent("findTuitsByUser", DaoFindTuitsByUser(FindTuitsByUserArg(params)), 0)
                     ELSE Rejected("findTuitsByUser")
    /\ UNCHANGED <<tuits, nextId, clock>>
    /\ UNCHANGED fixedVars
    /\ UNCHANGED userVars

CreateTuit(app, uid, body) ==
    /\ Dispatch(app, "POST", "/users/:uid/tuits") = "createTuit"
    /\ nextId < MaxTuits
    /\ LET params == Params("/users/:uid/tuits", uid)
           raw    == DaoCreateTuit(CreateTuitArg(params, body), body)
           built  == NewDocument(schema, raw, clock)
           doc    == Merge(built, [_id |-> IdOf(nextId + 1)])
       IN  /\ req' = Request("createTuit", params, body)
           /\ arg' = CreateTuitArg(params, body)
           /\ IF ValidDocument(schema, built)
              THEN /\ tuits' = Append(tuits, doc)
                   /\ nextId' = nextId + 1
                   /\ res' = Sent("createTuit", <<doc>>, 0)
              ELSE /\ res' = Rejected("createTuit")
                   /\ UNCHANGED <<tuits, nextId>>
    /\ UNCHANGED clock
    /\ UNCHANGED fixedVars
    /\ UNCHANGED userVars

DeleteTuit(app, tid) ==
    /\ Dispatch(app, "DELETE", "/tuits/:tid") = "deleteTuit"
    /\ LET params == Params("/tuits/:tid", tid)
       IN  /\ req' = Request("deleteTuit", params, Empty)
           /\ arg' = DeleteTuitArg(params)
           /\ tuits' = DaoDeleteTuit(DeleteTuitArg(params))
           /\ res' = Sent("deleteTuit", <<>>, DaoOutcome(DeleteTuitArg(params)))
    /\ UNCHANGED <<nextId, clock>>
    /\ UNCHANGED fixedVars
    /\ UNCHANGED userVars

UpdateTuit(app, tid, body) ==
    /\ Dispatch(app, "PUT", "/tuits/:tid") = "updateTuit"
    /\ LET params == Params("/tuits/:tid", tid)
       IN  /\ req' = Request("updateTuit", params, body)
           /\ arg' = UpdateTuitArg(params)
           /\ tuits' = DaoUpdateTuit(UpdateTuitArg(params), body)
           /\ res' = Sent("updateTuit", <<>>, DaoOutcome(UpdateTuitArg(params)))
    /\ UNCHANGED <<nextId, clock>>
    /\ UNCHANGED fixedVars
    /\ UNCHANGED userVars

\* Date.now() advances
Tick ==
    /\ clock < MaxClock
    /\ clock' = clock + 1
    /\ UNCHANGED <<tuits, nextId, req, arg, res>>
    /\ UNCHANGED fixedVars
    /\ UNCHANGED userVars

----------------------------------------------------------------------------
(* UserDao *)

Usernames == {"alice", "bob"}
Passwords == {"pw1", "pw2"}
UserIdOf(n) == "u" \o ToString(n)
UserIds == {UserIdOf(n) : n \in 1..(MaxUsers + 1)}

UCall(op, id, username, password) ==
    [op |-> op, id |-> id, username |-> username, password |-> password]

NeedsDao == userDao = 0

UserDaoGetInstance ==
    /\ IF NeedsDao
       THEN userDao' = Cardinality(daoReturned) + 1
       ELSE UNCHANGED userDao
    /\ daoReturned' = daoReturned \cup {userDao'}
    /\ UNCHANGED <<schema, ignoreUndefined>>
    /\ UNCHANGED ctlVars
    /\ UNCHANGED tuitVars
    /\ UNCHANGED userVars

CredentialsMatchUsernameOnly(u, username, password) == u.username = username

\* UserModel.findOne({username: username, password: password})
CredentialsMatch(u, username, password) == u.username = username /\ u.password = password

\* UserModel.findOne({username})
UsernameMatch(u, username) == u.username = username

FindOneUser(hit) == IF hit = {} THEN <<>> ELSE <<users[First(hit)]>>

daoFixed == <<userDao, daoReturned, schema, ignoreUndefined>>

UserRead(call, result) ==
    /\ userDao # 0
    /\ ucall' = call
    /\ ures' = result
    /\ UNCHANGED <<users, nextUserId>>
    /\ UNCHANGED daoFixed
    /\ UNCHANGED ctlVars
    /\ UNCHANGED tuitVars

UserWrite(call, after) ==
    /\ userDao # 0
    /\ ucall' = call
    /\ ures' = <<>>
    /\ users' = after
    /\ UNCHANGED nextUserId
    /\ UNCHANGED daoFixed
    /\ UNCHANGED ctlVars
    /\ UNCHANGED tuitVars

FindAllUsers == UserRead(UCall("findAllUsers", "", "", ""), users)

FindUserById(id) ==
    UserRead(UCall("findUserById", id, "", ""),
             FindOneUser({i \in 1..Len(users) : users[i]["_id"] = id}))

CreateUser(username, password) ==
    /\ userDao # 0
    /\ nextUserId < MaxUsers
    /\ LET u == [_id |-> UserIdOf(nextUserId + 1), username |-> username, password |-> password]
       IN  /\ users' = Append(users, u)
           /\ ures' = <<u>>
    /\ nextUserId' = nextUserId + 1
    /\ ucall' = UCall("createUser", "", username, password)
    /\ UNCHANGED daoFixed
    /\ UNCHANGED ctlVars
    /\ UNCHANGED tuitVars

DeleteUser(id) ==
    LET hit == {i \in 1..Len(users) : users[i]["_id"] = id}
    IN  UserWrite(UCall("deleteUser", id, "", ""),
                  IF hit = {} THEN users
                  ELSE SelectSeq2(users, (1..Len(users)) \ {First(hit)}))

\* UserModel.updateOne({_id: userId}, {$set: user}) with a user carrying a new password
UpdateUser(id, password) ==
    LET hit == {i \in 1..Len(users) : users[i]["_id"] = id}
    IN  UserWrite(UCall("updateUser", id, "", password),
                  IF hit = {} THEN users
                  ELSE [users EXCEPT ![First(hit)] = Merge(@, [password |-> password])])

DeleteAllUsers == UserWrite(UCall("deleteAllUsers", "", "", ""), <<>>)

DeleteUsersByUsername(username) ==
    UserWrite(UCall("deleteUsersByUsername", "", username, ""),
              SelectSeq2(users, {i \in 1..Len(users) : ~UsernameMatch(users[i], username)}))

FindUserByCredentials(username, password) ==
    UserRead(UCall("findUserByCredentials", "", username, password),
             FindOneUser({i \in 1..Len(users) : CredentialsMatch(users[i], username, password)}))

FindUserByUsername(username) ==
    UserRead(UCall("findUserByUsername", "", username, ""),
             FindOneUser({i \in 1..Len(users) : UsernameMatch(users[i], username)}))

----------------------------------------------------------------------------

Init ==
    /\ tuitController = 0
    /\ routes = [a \in Apps |-> <<>>]
    /\ firstApp = NoApp
    /\ callApps = {}
    /\ returned = {}
    /\ userDao = 0
    /\ daoReturned = {}
    /\ schema \in Schemas
    /\ ignoreUndefined \in BOOLEAN
    /\ tuits = <<>>
    /\ nextId = 0
    /\ clock = 0
    /\ req = Request("none", Empty, Empty)
    /\ arg = NoArg
    /\ res = [handler |-> "none", status |-> "none", docs |-> <<>>, n |-> 0]
    /\ users = <<>>
    /\ nextUserId = 0
    /\ ucall = UCall("none", "", "", "")
    /\ ures = <<>>

Next ==
    \/ \E app \in Apps : GetInstance(app)
    \/ \E app \in Apps : FindAllTuits(app)
    \/ \E app \in Apps, tid \in TuitIds : FindTuitById(app, tid)
    \/ \E app \in Apps, uid \in Uids : FindTuitsByUser(app, uid)
    \/ \E app \in Apps, uid \in Uids, body \in Bodies : CreateTuit(app, uid, body)
    \/ \E app \in Apps, tid \in TuitIds : DeleteTuit(app, tid)
    \/ \E app \in Apps, tid \in TuitIds, body \in Bodies : UpdateTuit(app, tid, body)
    \/ Tick

Spec == Init /\ [][Next]_vars

NextDao ==
    \/ \E app \in Apps : GetInstance(app)
    \/ UserDaoGetInstance
    \/ FindAllUsers
    \/ \E id \in UserIds : FindUserById(id)
    \/ \E username \in Usernames, password \in Passwords : CreateUser(username, password)
    \/ \E id \in UserIds : DeleteUser(id)
    \/ \E id \in UserIds, password \in Passwords : UpdateUser(id, password)
    \/ DeleteAllUsers
    \/ \E username \in Usernames : DeleteUsersByUsername(username)
    \/ \E username \in Usernames, password \in Passwords : FindUserByCredentials(username, password)
    \/ \E username \in Usernames : FindUserByUsername(username)

SpecDao == Init /\ [][NextDao]_vars

----------------------------------------------------------------------------
(* Properties *)

StoredWithId(tid) == SelectSeq(tuits, LAMBDA d : d["_id"] = tid)
StoredIds == {tuits[i]["_id"] : i \in 1..Len(tuits)}

\* a step of Spec taken by a tuit request handler (not Tick, not getInstance)
HandlerStep == clock' = clock /\ ctlVars' = ctlVars

CreateSent == res.handler = "createTuit" /\ res.status = "sent"

\* C1: a successful createTuit stores and returns a document whose postedBy is
\* the uid of the path, whatever postedBy the body carries.
C1_PathParamWins ==
    CreateSent =>
        /\ Len(res.docs) = 1
        /\ res.docs[1]["postedBy"] = req.params["uid"]
        /\ tuits # <<>>
        /\ tuits[Len(tuits)] = res.docs[1]

C1_Witness ==
    /\ CreateSent
    /\ Has(req.body, "postedBy")
    /\ req.body["postedBy"] # req.params["uid"]

\* C2: GET /tuits/<id> returns the stored document with that id, and after
\* DELETE /tuits/<id> no document with that id is stored.
C2_GetThenDelete ==
    /\ res.handler = "findTuitById" => res.docs = StoredWithId(req.params["tid"])
    /\ res.handler = "deleteTuit" => StoredWithId(req.params["tid"]) = <<>>

\* C3: PUT /tuits/:tid with body B sets exactly B's fields on the tuit with
\* primary key tid and leaves its other fields and every other tuit alone.
C3_UpdateMerges ==
    [][(req'.handler = "updateTuit" /\ HandlerStep) =>
         /\ Len(tuits') = Len(tuits)
         /\ \A i \in 1..Len(tuits) :
               tuits'[i] = IF tuits[i]["_id"] = req'.params["tid"]
                           THEN Merge(tuits[i], req'.body)
                           ELSE tuits[i]]_vars

\* C4: a tuit created from a body with neither stats nor postedOn is stored
\* with the six counters at 0 and postedOn at the creation instant, under
\* either schema declaration.
C4_DefaultsApplied ==
    [][(req'.handler = "createTuit" /\ HandlerStep /\ res'.status = "sent"
          /\ ~Has(req'.body, "stats") /\ ~Has(req'.body, "postedOn")) =>
         /\ res'.docs[1]["postedOn"] = clock
         /\ tuits' = Append(tuits, res'.docs[1])
         /\ Has(res'.docs[1], "stats")
         /\ DOMAIN res'.docs[1]["stats"] = StatsCounters
         /\ \A c \in StatsCounters : res'.docs[1]["stats"][c] = 0]_vars

EmptyText(body) == ~Has(body, "tuit") \/ body["tuit"] = ""

\* C5: createTuit with an empty or missing text is rejected by the persistence
\* call: nothing is stored and no response is sent.
C5_EmptyTextRejected ==
    /\ []((res.handler = "createTuit" /\ EmptyText(req.body)) =>
            (res.status = "rejected" /\ res.docs = <<>>))
    /\ [][(req'.handler = "createTuit" /\ EmptyText(req'.body) /\ HandlerStep) =>
            (tuits' = tuits /\ nextId' = nextId)]_vars

C5_Witness ==
    /\ res.handler = "createTuit"
    /\ req.body = [tuit |-> ""]
    /\ req.params["uid"] \in ValidUids
    /\ res.status = "rejected"

\* C6: GET /users/:uid/tuits returns exactly the stored tuits posted by uid,
\* and the empty array (not an error) for a user with none.
C6_TuitsOfUser ==
    res.handler = "findTuitsByUser" =>
        /\ req.params["uid"] \in ValidUids => res.status = "sent"
        /\ res.status = "sent" =>
              /\ {res.docs[i] : i \in 1..Len(res.docs)} =
                    {tuits[i] : i \in {j \in 1..Len(tuits) : tuits[j]["postedBy"] = req.params["uid"]}}
              /\ Len(res.docs) =
                    Cardinality({j \in 1..Len(tuits) : tuits[j]["postedBy"] = req.params["uid"]})

C6_Witness ==
    /\ res.handler = "findTuitsByUser"
    /\ res.status = "sent"
    /\ res.docs = <<>>
    /\ tuits # <<>>

C8_Credentials ==
    /\ [](ucall.op = "findUserByCredentials" =>
            IF \E i \in 1..Len(users) :
                   users[i].username = ucall.username /\ users[i].password = ucall.password
            THEN /\ Len(ures) = 1
                 /\ \E i \in 1..Len(users) : users[i] = ures[1]
                 /\ ures[1].username = ucall.username
                 /\ ures[1].password = ucall.password
            ELSE ures = <<>>)
    /\ [][ucall'.op = "findUserByCredentials" => users' = users]_vars

C8_Witness ==
    /\ ucall.op = "findUserByCredentials"
    /\ ures = <<>>
    /\ \E i \in 1..Len(users) :
          users[i].username = ucall.username /\ users[i].password # ucall.password
    /\ \E i \in 1..Len(users) :
          users[i].username # ucall.username /\ users[i].password = ucall.password

C10_Singletons ==
    /\ Cardinality(returned) <= 1
    /\ returned = IF callApps = {} THEN {} ELSE {tuitController}
    /\ \A a \in Apps : routes[a] = IF a = firstApp THEN SixRoutes ELSE <<>>
    /\ \A a \in Apps, k \in 1..Len(SixRoutes) :
          a = firstApp => Cardinality({i \in 1..Len(routes[a]) : routes[a][i] = SixRoutes[k]}) = 1
    /\ Cardinality(daoReturned) <= 1
    /\ daoReturned = IF userDao = 0 THEN {} ELSE {userDao}

C10_Witness ==
    /\ callApps = Apps
    /\ firstApp = "app2"
    /\ daoReturned # {}
    /\ users # <<>>

====
